---- MODULE Spec2Model ----
(***************************************************************************)
(* Model of serv.py: a Connect Four server.  One coroutine                 *)
(* (handle_websocket) runs per connection on a single asyncio event loop;  *)
(* the coroutines share games, player_connections and game_waiting and may *)
(* interleave only where the code awaits (websocket.send and the receive   *)
(* of `async for`).  Each action below is the code between two awaits.     *)
(***************************************************************************)
EXTENDS Integers, Sequences, FiniteSets, TLC

\* ---------------------------------------------------------------- bounds
MaxPlayers == 4          \* connections accepted during a run
MaxMoves == 2            \* successful moves applied during a run

\* ------------------------------------------------------ program constants
ROWS == 6
COLS == 7
None == 0                \* Python's None (game_waiting, winner, locals)

Players == 1..MaxPlayers \* player ids (uuid4), named in order of arrival
Columns == {-1, 0, 3, COLS}  \* values of data['column'] clients send here

VARIABLES
    games,               \* Connect4Server.games, in insertion order
    player_connections,  \* keys of Connect4Server.player_connections
    game_waiting,        \* Connect4Server.game_waiting (a game_id or None)
    closed,              \* connections whose websocket is closed
    pc,                  \* where each connection's coroutine is suspended
    game,                \* the local variable `game` of a suspended coroutine
    di_used,             \* size of game.players when the broadcast loop began
    sent,                \* the message the last step handed to websocket.send
    moves_made           \* successful moves so far (bounds the run)

vars == <<games, player_connections, game_waiting, closed, pc, game, di_used,
          sent, moves_made>>

\* ------------------------------------------------------------ Connect4Game
EmptyBoard == [row \in 0..(ROWS - 1) |-> [col \in 0..(COLS - 1) |-> 0]]

Connect4Game(game_id) ==
    [game_id |-> game_id,
     board |-> EmptyBoard,
     current_player |-> 1,
     players |-> <<>>,
     game_over |-> FALSE,
     winner |-> None]

\* check_winner without its vertical check (lines 28-32)
check_winner_NoVertical(board, player) ==
    \/ \E row \in 0..5, col \in 0..3 :
          \A i \in 0..3 : board[row][col + i] = player
    \/ \E row \in 0..2, col \in 0..3 :
          \/ \A i \in 0..3 : board[row + i][col + i] = player
          \/ \A i \in 0..3 : board[row + i][col + 3 - i] = player

\* check_winner with the diagonal scan stopping one column early
\* (`for col in range(3)`)
check_winner_NarrowDiagonal(board, player) ==
    \/ \E row \in 0..5, col \in 0..3 :
          \A i \in 0..3 : board[row][col + i] = player
    \/ \E col \in 0..6, row \in 0..2 :
          \A i \in 0..3 : board[row + i][col] = player
    \/ \E row \in 0..2, col \in 0..2 :
          \/ \A i \in 0..3 : board[row + i][col + i] = player
          \/ \A i \in 0..3 : board[row + i][col + 3 - i] = player

check_winner(board, player) ==
    \/ \E row \in 0..5, col \in 0..3 :
          \A i \in 0..3 : board[row][col + i] = player
    \/ \E col \in 0..6, row \in 0..2 :
          \A i \in 0..3 : board[row + i][col] = player
    \/ \E row \in 0..2, col \in 0..3 :
          \/ \A i \in 0..3 : board[row + i][col + i] = player
          \/ \A i \in 0..3 : board[row + i][col + 3 - i] = player

\* the loop falling back on the top row when it finds no empty cell
FirstEmptyRow_Overwrite(board, column) ==
    LET empty == {row \in 0..5 : board[row][column] = 0}
    IN  IF empty = {} THEN 0
        ELSE CHOOSE row \in empty : \A other \in empty : other <= row

\* the loop run as range(0, 6): it stops at the topmost empty cell
FirstEmptyRow_Top(board, column) ==
    LET empty == {row \in 0..5 : board[row][column] = 0}
    IN  IF empty = {} THEN -1
        ELSE CHOOSE row \in empty : \A other \in empty : row <= other

\* the row `for row in range(5, -1, -1)` stops at: the greatest empty one
FirstEmptyRow(board, column) ==
    LET empty == {row \in 0..5 : board[row][column] = 0}
    IN  IF empty = {} THEN -1
        ELSE CHOOSE row \in empty : \A other \in empty : other <= row

\* make_move with `self.current_player = 3 - player` in an else branch of
\* the winner check: a winning move keeps the turn
make_move_WinKeepsTurn(g, player, column) ==
    IF column < 0 \/ column >= 7
    THEN [game |-> g, success |-> FALSE, message |-> "Invalid column"]
    ELSE IF FirstEmptyRow(g.board, column) = -1
    THEN [game |-> g, success |-> FALSE, message |-> "Column is full"]
    ELSE LET row == FirstEmptyRow(g.board, column)
             board == [g.board EXCEPT ![row][column] = player]
             won == check_winner(board, player)
         IN  [game |-> [g EXCEPT !.board = board,
                                 !.game_over = IF won THEN TRUE ELSE @,
                                 !.winner = IF won THEN player ELSE @,
                                 !.current_player =
                                     IF won THEN @ ELSE 3 - player],
              success |-> TRUE,
              message |-> "Move successful"]

\* make_move writing on the floor of the column without looking for an
\* empty cell
make_move_Floor(g, player, column) ==
    IF column < 0 \/ column >= 7
    THEN [game |-> g, success |-> FALSE, message |-> "Invalid column"]
    ELSE LET board == [g.board EXCEPT ![5][column] = player]
             won == check_winner(board, player)
         IN  [game |-> [g EXCEPT !.board = board,
                                 !.game_over = IF won THEN TRUE ELSE @,
                                 !.winner = IF won THEN player ELSE @,
                                 !.current_player = 3 - player],
              success |-> TRUE,
              message |-> "Move successful"]

make_move(g, player, column) ==
    IF column < 0 \/ column >= 7
    THEN [game |-> g, success |-> FALSE, message |-> "Invalid column"]
    ELSE IF FirstEmptyRow(g.board, column) = -1
    THEN [game |-> g, success |-> FALSE, message |-> "Column is full"]
    ELSE LET row == FirstEmptyRow(g.board, column)
             board == [g.board EXCEPT ![row][column] = player]
             won == check_winner(board, player)
         IN  [game |-> [g EXCEPT !.board = board,
                                 !.game_over = IF won THEN TRUE ELSE @,
                                 !.winner = IF won THEN player ELSE @,
                                 !.current_player = 3 - player],
              success |-> TRUE,
              message |-> "Move successful"]

\* ---------------------------------------------------------------- messages
NoMsg == [type |-> "none"]

\* websocket.send(json.dumps(msg)) on the connection of player `to`
Send(to, msg) == [to |-> to, msg |-> msg]
NoSend == Send(None, NoMsg)

StatusMsg(status, player_number, game_id) ==
    [type |-> "game_status", status |-> status,
     player_number |-> player_number, game_id |-> game_id]

UpdateMsg(g) ==
    [type |-> "game_update", board |-> g.board,
     current_player |-> g.current_player,
     game_over |-> g.game_over, winner |-> g.winner]

ErrorResponse(message) ==
    [type |-> "response", success |-> FALSE, message |-> message]

MoveResponse(success, message, g) ==
    [type |-> "response", success |-> success, message |-> message,
     board |-> g.board, current_player |-> g.current_player,
     game_over |-> g.game_over, winner |-> g.winner]

\* self.player_connections[p_id] followed by send: fails with KeyError when
\* p_id was deleted, with ConnectionClosed when its websocket is closed
CanSend(p_id, conns, shut) == p_id \in conns /\ p_id \notin shut

\* ------------------------------------------------------------------- Init
Init ==
    /\ games = <<>>
    /\ player_connections = {}
    /\ game_waiting = None
    /\ closed = {}
    /\ pc = [c \in Players |-> "init"]
    /\ game = [c \in Players |-> None]
    /\ di_used = [c \in Players |-> 0]
    /\ sent = NoSend
    /\ moves_made = 0

\* --------------------------------------------------------- register_player
\* game.players[2] = player_id on a dict that holds key 1 (and maybe key 2)
AssignSeat2(players, player_id) ==
    IF Len(players) < 2 THEN Append(players, player_id)
    ELSE [players EXCEPT ![2] = player_id]

\* the handler dies inside register_player: player_id is still unbound in
\* handle_websocket, so its except/finally clauses raise as well and the
\* entry of player_connections stays; the server then closes the socket
RegisterFails(c) ==
    /\ pc' = [pc EXCEPT ![c] = "crashed"]
    /\ closed' = closed \cup {c}
    /\ game' = [game EXCEPT ![c] = None]
    /\ sent' = NoSend

\* one iteration of `for player_number, p_id in game.players.items()`
NotifyStarted(c, g, player_number, conns, next_pc) ==
    LET p_id == g.players[player_number]
    IN  IF CanSend(p_id, conns, closed)
        THEN /\ sent' = Send(p_id, StatusMsg("started", player_number,
                                             g.game_id))
             /\ pc' = [pc EXCEPT ![c] = next_pc]
             /\ game' = [game EXCEPT ![c] = g.game_id]
             /\ UNCHANGED closed
        ELSE RegisterFails(c)

\* lines 77-96 (no game waiting) or 77-106 (up to the first awaited send)
register_player(c) ==
    /\ pc[c] = "init"
    /\ \A p \in Players : p < c => pc[p] # "init"
    /\ player_connections' = player_connections \cup {c}
    /\ IF game_waiting = None
       THEN LET game_id == Len(games) + 1
                g == [Connect4Game(game_id) EXCEPT !.players = <<c>>]
            IN  /\ games' = Append(games, g)
                /\ game_waiting' = game_id
                /\ sent' = Send(c, StatusMsg("waiting", 1, game_id))
                /\ pc' = [pc EXCEPT ![c] = "recv"]
                /\ UNCHANGED <<closed, game>>
       ELSE LET g == [games[game_waiting] EXCEPT
                          !.players = AssignSeat2(@, c)]
            IN  /\ games' = [games EXCEPT ![game_waiting] = g]
                /\ NotifyStarted(c, g, 1, player_connections', "started_1")
                /\ UNCHANGED game_waiting
    /\ UNCHANGED <<di_used, moves_made>>

\* resumed after the send to seat 1: second iteration of the loop
register_notify(c) ==
    /\ pc[c] = "started_1"
    /\ NotifyStarted(c, games[game[c]], 2, player_connections, "started_2")
    /\ UNCHANGED <<games, player_connections, game_waiting, di_used,
                   moves_made>>

\* resumed after the send to seat 2: lines 113-117, then the receive loop
register_finish(c) ==
    /\ pc[c] = "started_2"
    /\ game_waiting' = None
    /\ pc' = [pc EXCEPT ![c] = "recv"]
    /\ game' = [game EXCEPT ![c] = None]
    /\ sent' = NoSend
    /\ UNCHANGED <<games, player_connections, closed, di_used, moves_made>>

\* --------------------------------------------------------------- handle_move
\* `player_id in game.players.values()`
HasPlayer(g, player_id) ==
    \E n \in 1..Len(g.players) : g.players[n] = player_id

\* the first game of self.games.values() that holds the player, else None
FindGame(gs, player_id) ==
    LET found == {game_id \in 1..Len(gs) : HasPlayer(gs[game_id], player_id)}
    IN  IF found = {} THEN None
        ELSE CHOOSE game_id \in found : \A other \in found : game_id <= other

\* list(keys)[list(values).index(player_id)]
PlayerNumber(g, player_id) ==
    CHOOSE n \in 1..Len(g.players) :
        /\ g.players[n] = player_id
        /\ \A m \in 1..Len(g.players) : g.players[m] = player_id => n <= m

\* the turn check applied to seat 2 only
IsPlayersTurn_Seat2Only(g, player_number) ==
    player_number = 1 \/ g.current_player = player_number

\* the turn check left out: any seated participant may move
IsPlayersTurn_Skipped(g, player_number) == TRUE

\* line 127: the move goes on only when this holds
IsPlayersTurn(g, player_number) == g.current_player = player_number

\* the response reaches the requester (websocket.send, line 168); a closed
\* socket raises ConnectionClosed, which line 170 catches and logs
Respond(c, msg) ==
    /\ sent' = IF c \in closed THEN NoSend ELSE Send(c, msg)
    /\ pc' = [pc EXCEPT ![c] = "recv"]
    /\ game' = [game EXCEPT ![c] = None]
    /\ di_used' = [di_used EXCEPT ![c] = 0]

\* an exception inside handle_move: caught at line 170, nothing is sent
MoveRaises(c) ==
    /\ pc' = [pc EXCEPT ![c] = "recv"]
    /\ game' = [game EXCEPT ![c] = None]
    /\ di_used' = [di_used EXCEPT ![c] = 0]
    /\ sent' = NoSend

\* one iteration of the broadcast loop, lines 135-143
SendUpdate(c, g, p_number, used, next_pc) ==
    LET p_id == g.players[p_number]
    IN  IF CanSend(p_id, player_connections, closed)
        THEN /\ sent' = Send(p_id, UpdateMsg(g))
             /\ pc' = [pc EXCEPT ![c] = next_pc]
             /\ game' = [game EXCEPT ![c] = g.game_id]
             /\ di_used' = [di_used EXCEPT ![c] = used]
        ELSE MoveRaises(c)

\* a 'move' message is received: lines 119-137, up to the first awaited send
handle_move(c, column) ==
    /\ pc[c] = "recv"
    /\ c \notin closed
    /\ LET game_id == FindGame(games, c)
       IN  IF game_id = None
           THEN /\ Respond(c, ErrorResponse("Game not found"))
                /\ UNCHANGED <<games, moves_made>>
           ELSE LET g == games[game_id]
                    player_number == PlayerNumber(g, c)
                    r == make_move(g, player_number, column)
                IN  IF ~IsPlayersTurn(g, player_number)
                    THEN /\ Respond(c, ErrorResponse("Not your turn"))
                         /\ UNCHANGED <<games, moves_made>>
                    ELSE IF ~r.success
                    THEN /\ Respond(c, MoveResponse(FALSE, r.message, g))
                         /\ UNCHANGED <<games, moves_made>>
                    ELSE /\ moves_made < MaxMoves
                         /\ moves_made' = moves_made + 1
                         /\ games' = [games EXCEPT ![game_id] = r.game]
                         /\ SendUpdate(c, r.game, 1, Len(g.players),
                                       "update_1")
    /\ UNCHANGED <<player_connections, game_waiting, closed>>

\* resumed after the send to seat 1: the dict iterator raises RuntimeError
\* when the dict changed size, ends after one seat, or goes on to seat 2
handle_move_next(c) ==
    /\ pc[c] = "update_1"
    /\ LET g == games[game[c]]
       IN  IF Len(g.players) # di_used[c]
           THEN MoveRaises(c)
           ELSE IF di_used[c] = 1
           THEN Respond(c, MoveResponse(TRUE, "Move successful", g))
           ELSE SendUpdate(c, g, 2, di_used[c], "update_2")
    /\ UNCHANGED <<games, player_connections, game_waiting, closed,
                   moves_made>>

\* resumed after the send to seat 2: lines 145-152 and the send of line 168
handle_move_return(c) ==
    /\ pc[c] = "update_2"
    /\ Respond(c, MoveResponse(TRUE, "Move successful", games[game[c]]))
    /\ UNCHANGED <<games, player_connections, game_waiting, closed,
                   moves_made>>

\* ------------------------------------------------------------- disconnection
\* the client closes its connection (at any time after it connected)
disconnect(c) ==
    /\ pc[c] \notin {"init", "done", "crashed"}
    /\ c \notin closed
    /\ closed' = closed \cup {c}
    /\ sent' = NoSend
    /\ UNCHANGED <<games, player_connections, game_waiting, pc, game, di_used,
                   moves_made>>

\* `async for` ends on a closed websocket: lines 173-180
handle_websocket_finally(c) ==
    /\ pc[c] = "recv"
    /\ c \in closed
    /\ player_connections' = player_connections \ {c}
    /\ pc' = [pc EXCEPT ![c] = "done"]
    /\ sent' = NoSend
    /\ UNCHANGED <<games, game_waiting, closed, game, di_used, moves_made>>

\* ------------------------------------------------------------ specification
Next ==
    \E c \in Players :
        \/ register_player(c)
        \/ register_notify(c)
        \/ register_finish(c)
        \/ \E column \in Columns : handle_move(c, column)
        \/ handle_move_next(c)
        \/ handle_move_return(c)
        \/ disconnect(c)
        \/ handle_websocket_finally(c)

Spec == Init /\ [][Next]_vars

\* the event loop resumes a coroutine whose awaited send or receive is done
Resume(c) ==
    \/ register_notify(c)
    \/ register_finish(c)
    \/ handle_move_next(c)
    \/ handle_move_return(c)
    \/ handle_websocket_finally(c)

\* asyncio runs every ready coroutine; clients owe the server nothing
SpecFair == Spec /\ \A c \in Players : WF_vars(Resume(c))

\* ------------------------------------------------- games already under way
\* Columns played in turn by seats 1, 2, 1, ... from the empty board, none
\* of them completing a line of four.
WinLine == <<0, 3, 0, 3, 0, 3>>      \* three in column 0, three in column 3
FullLine == <<0, 0, 0, 0, 0, 0>>     \* column 0 is full
DrawLine ==                          \* all but the tops of columns 3 and 0
    <<0, 0, 0, 0, 0, 3, 3, 3, 3, 3>> \o <<1, 1, 1, 1, 1, 1>>
    \o <<4, 4, 4, 4, 4, 4>> \o <<5, 5, 5, 5, 5>> \o <<2, 2, 2, 2, 2, 2>>
    \o <<6, 6, 6, 6, 6, 6>> \o <<5>>
PlayLines == {WinLine, FullLine, DrawLine}

\* the game after the moves of `line`, each made by the seat whose turn it is
\* (handle_move lets no other seat move); it stops at a move that fails
RECURSIVE PlayLine(_, _)
PlayLine(g, line) ==
    IF line = <<>> THEN g
    ELSE LET r == make_move(g, g.current_player, Head(line))
         IN  IF r.success THEN PlayLine(r.game, Tail(line)) ELSE g

\* players 1 and 2 joined one after the other (game 1) and played `line`,
\* every request handled to its end
InitPlay ==
    \E line \in PlayLines :
        LET g == PlayLine([Connect4Game(1) EXCEPT !.players = <<1, 2>>], line)
        IN  /\ games = <<g>>
            /\ player_connections = {1, 2}
            /\ game_waiting = None
            /\ closed = {}
            /\ pc = [c \in Players |-> IF c \in {1, 2} THEN "recv" ELSE "init"]
            /\ game = [c \in Players |-> None]
            /\ di_used = [c \in Players |-> 0]
            /\ sent = Send(3 - g.current_player,
                           MoveResponse(TRUE, "Move successful", g))
            /\ moves_made = 0

SpecPlay == InitPlay /\ [][Next]_vars

\* ------------------------------------------- check_winner on chosen boards
\* Boards given to check_winner: a run of cells of one seat laid from a start
\* cell in one direction (clipped at the edge of the board) over a
\* background.  In a shape, 1 is a cell of the seat and 0 a cell left to the
\* background.
Shapes == {<<1, 1, 1>>, <<1, 1, 1, 1>>, <<1, 1, 0, 1, 1>>, <<1, 1, 1, 1, 1>>}
Directions == {<<0, 1>>, <<1, 0>>, <<1, 1>>, <<1, -1>>}
Backgrounds == {"empty", "rival", "mixed"}

\* "mixed": rows 1122112 and 2211221 in turn, a full board without any four
Background(bg, player, row, col) ==
    IF bg = "empty" THEN 0
    ELSE IF bg = "rival" THEN 3 - player
    ELSE IF ((col \div 2) % 2 = 0) = (row % 2 = 0) THEN 1 ELSE 2

ShapeBoard(player, start, dir, shape, bg) ==
    [row \in 0..(ROWS - 1) |-> [col \in 0..(COLS - 1) |->
        IF \E i \in 1..Len(shape) :
               /\ shape[i] = 1
               /\ row = start[1] + (i - 1) * dir[1]
               /\ col = start[2] + (i - 1) * dir[2]
        THEN player
        ELSE Background(bg, player, row, col)]]

\* a game of players 1 and 2 holding one of the boards, nothing in progress
InitWin ==
    \E player \in {1, 2}, start \in (0..(ROWS - 1)) \X (0..(COLS - 1)),
       dir \in Directions, shape \in Shapes, bg \in Backgrounds :
        /\ games = <<[Connect4Game(1) EXCEPT
                          !.players = <<1, 2>>,
                          !.board = ShapeBoard(player, start, dir, shape,
                                               bg)]>>
        /\ player_connections = {1, 2}
        /\ game_waiting = None
        /\ closed = {}
        /\ pc = [c \in Players |-> IF c \in {1, 2} THEN "recv" ELSE "init"]
        /\ game = [c \in Players |-> None]
        /\ di_used = [c \in Players |-> 0]
        /\ sent = NoSend
        /\ moves_made = 0

\* lines 57-59 of make_move run on the board for one seat
CheckForWinner(player) ==
    /\ moves_made = 0
    /\ moves_made' = 1
    /\ games' = [games EXCEPT
                     ![1].game_over =
                         IF check_winner(games[1].board, player)
                         THEN TRUE ELSE @,
                     ![1].winner =
                         IF check_winner(games[1].board, player)
                         THEN player ELSE @]
    /\ UNCHANGED <<player_connections, game_waiting, closed, pc, game,
                   di_used, sent>>

NextWin == \E player \in {1, 2} : CheckForWinner(player)

SpecWin == InitWin /\ [][NextWin]_vars

\* ------------------------------------------------------------------ claims
GameIds == 1..Len(games)

\* a step in which connection c joins (register_player starts)
Joins(c) == pc[c] = "init" /\ pc'[c] # "init"

\* the coroutine of c has left handle_websocket after its connection closed
Disconnected(c) == pc[c] = "done"

BoardFull(board) ==
    \A row \in 0..(ROWS - 1), col \in 0..(COLS - 1) : board[row][col] # 0

\* C1: once a game is won (game_over is true), no later move request, from
\* either seat and for any column, changes its board.
C1_WonGameRejectsMoves ==
    [][\A game_id \in GameIds :
          games[game_id].game_over =>
              games'[game_id].board = games[game_id].board]_vars

\* C2: a seat that has been given to a participant is never given to another
\* participant, however the joins interleave.
C2_SeatNeverReassigned ==
    [][\A game_id \in GameIds :
          \A n \in 1..Len(games[game_id].players) :
              games'[game_id].players[n] = games[game_id].players[n]]_vars

\* C3: every game with fewer than two seats filled is the game held in the
\* waiting slot (so there is at most one such game).
C3_OnlyWaitingGameLacksPlayer ==
    \A game_id \in GameIds :
        Len(games[game_id].players) < 2 => game_waiting = game_id

\* C4: a participant who joins after the only participant of the waiting
\* game has disconnected finds the waiting slot empty: it becomes seat 1 of a
\* new game and is not seated in the abandoned game.
C4_JoinAfterLoneDisconnect ==
    [][\A c \in Players, game_id \in GameIds :
          ( /\ Joins(c)
            /\ Len(games[game_id].players) = 1
            /\ Disconnected(games[game_id].players[1]) )
          => /\ game_waiting = None
             /\ ~HasPlayer(games'[game_id], c)
             /\ games'[Len(games')].players = <<c>>]_vars

\* C5: once a participant of a game in progress (two seats filled, not over)
\* has disconnected, no move is accepted in that game: its board stays.
C5_NoMoveAfterDisconnect ==
    [][\A game_id \in GameIds :
          ( /\ Len(games[game_id].players) = 2
            /\ ~games[game_id].game_over
            /\ \E n \in 1..2 : Disconnected(games[game_id].players[n]) )
          => games'[game_id].board = games[game_id].board]_vars

\* C6: while a game still waits for its second player, no move request by
\* seat 1 changes its board, turn or outcome.
C6_NoMoveWhileWaiting ==
    [][\A game_id \in GameIds :
          Len(games[game_id].players) = 1 =>
              /\ games'[game_id].board = games[game_id].board
              /\ games'[game_id].current_player
                     = games[game_id].current_player
              /\ games'[game_id].game_over = games[game_id].game_over
              /\ games'[game_id].winner = games[game_id].winner]_vars

\* C7: a move request by a participant whose seat is not the current turn of
\* its game is answered 'Not your turn' and changes no game (board, turn,
\* game_over and winner all stay).
C7_NotYourTurn ==
    [][\A c \in Players, column \in Columns :
          ( /\ handle_move(c, column)
            /\ FindGame(games, c) # None
            /\ games[FindGame(games, c)].current_player
                   # PlayerNumber(games[FindGame(games, c)], c) )
          => /\ sent' = Send(c, ErrorResponse("Not your turn"))
             /\ games' = games]_vars

\* a seated participant has just been answered 'Not your turn'
C7_Witness ==
    \E c \in Players :
        /\ sent = Send(c, ErrorResponse("Not your turn"))
        /\ FindGame(games, c) # None
        /\ games[FindGame(games, c)].current_player
               # PlayerNumber(games[FindGame(games, c)], c)

\* C8: a game whose board is full with no four in a row for either seat is
\* over (drawn), with no winner.
C8_FullBoardIsDrawn ==
    \A game_id \in GameIds :
        ( /\ BoardFull(games[game_id].board)
          /\ ~check_winner(games[game_id].board, 1)
          /\ ~check_winner(games[game_id].board, 2) )
        => games[game_id].game_over /\ games[game_id].winner = None

\* C9: once a game is won, game_over stays true and winner keeps naming the
\* same seat.
C9_OutcomeNeverChanges ==
    [][\A game_id \in GameIds :
          games[game_id].game_over =>
              /\ games'[game_id].game_over
              /\ games'[game_id].winner = games[game_id].winner]_vars

\* no connection other than c is inside register_player
OnlyJoiner(c) ==
    \A p \in Players \ {c} : pc[p] \notin {"started_1", "started_2"}

\* nobody joined since c took seat 2 of the waiting game
StillSeat2(c) ==
    game_waiting = game[c] /\ games[game[c]].players[2] = c

\* C10: when joins do not overlap, the participant who joins while the
\* waiting slot is empty gets seat 1 of a new game and a 'waiting' status;
\* the next one gets seat 2 of that game, 'started' goes to both, each with
\* its own seat number, and the slot is empty once that join completes.
C10_SequentialJoins ==
    [][\A c \in Players :
          OnlyJoiner(c) =>
          /\ (Joins(c) /\ game_waiting = None)
             => /\ game_waiting' = Len(games')
                /\ games'[game_waiting'].players = <<c>>
                /\ sent' = Send(c, StatusMsg("waiting", 1, game_waiting'))
          /\ (Joins(c) /\ game_waiting # None)
             => /\ games'[game_waiting].players
                       = <<games[game_waiting].players[1], c>>
                /\ sent' = Send(games[game_waiting].players[1],
                                StatusMsg("started", 1, game_waiting))
          /\ (pc[c] = "started_1" /\ pc'[c] # "started_1" /\ StillSeat2(c))
             => sent' = Send(c, StatusMsg("started", 2, game[c]))
          /\ (pc[c] = "started_2" /\ pc'[c] # "started_2" /\ StillSeat2(c))
             => game_waiting' = None]_vars

\* the step is the handling of a 'move' message of c that changes a game
MoveApplied(c) == \E column \in Columns : handle_move(c, column) /\ games' # games

\* the step is the handling of a 'move' message of c that changes no game
MoveFailed(c) == \E column \in Columns : handle_move(c, column) /\ games' = games

\* C11: after a successful move the game_update goes to the connection of
\* seat 1 and then to the connection of seat 2 (when that seat is filled),
\* not only to the requester; after a failed move nothing but the error
\* response is sent, and it goes to the requester.
C11_UpdateToBothSeats ==
    [][\A c \in Players :
          /\ MoveApplied(c) =>
                LET g == games'[FindGame(games, c)]
                IN  sent' = Send(g.players[1], UpdateMsg(g))
          /\ (pc[c] = "update_1" /\ pc'[c] # "update_1"
                 /\ Len(games[game[c]].players) = 2) =>
                LET g == games[game[c]]
                IN  sent' = Send(g.players[2], UpdateMsg(g))
          /\ MoveFailed(c) =>
                /\ sent'.to = c
                /\ sent'.msg.type = "response"
                /\ ~sent'.msg.success]_vars

\* no cell of the column is empty
ColumnFull(board, column) ==
    \A row \in 0..(ROWS - 1) : board[row][column] # 0

\* c is seated in a game and it is the turn of its seat
OnTurn(c) ==
    /\ FindGame(games, c) # None
    /\ games[FindGame(games, c)].current_player
           = PlayerNumber(games[FindGame(games, c)], c)

\* C12: a move (by the seat whose turn it is) into a column that has no
\* empty cell is answered with failure and 'Column is full', and the game
\* (board, turn, game_over, winner) is left as it was.
C12_ColumnIsFull ==
    [][\A c \in Players, column \in 0..(COLS - 1) :
          ( /\ handle_move(c, column)
            /\ OnTurn(c)
            /\ ColumnFull(games[FindGame(games, c)].board, column) )
          => /\ sent' = Send(c, MoveResponse(FALSE, "Column is full",
                                             games[FindGame(games, c)]))
             /\ games' = games]_vars

\* the seat on turn has just been answered 'Column is full' and some column
\* of its board is full
C12_Witness ==
    \E c \in Players :
        /\ OnTurn(c)
        /\ sent = Send(c, MoveResponse(FALSE, "Column is full",
                                       games[FindGame(games, c)]))
        /\ \E column \in 0..(COLS - 1) :
               ColumnFull(games[FindGame(games, c)].board, column)

\* the empty cell of the column that rests on the floor or on a piece
LowestEmpty(board, column) ==
    CHOOSE row \in 0..(ROWS - 1) :
        /\ board[row][column] = 0
        /\ \A below \in (row + 1)..(ROWS - 1) : board[below][column] # 0

\* C13: a successful move in a column changes exactly one cell of the board:
\* the lowest empty cell of that column (greatest row index) takes the
\* mover's seat number, and every other cell keeps its value.
C13_LowestEmptyCell ==
    [][\A c \in Players, column \in 0..(COLS - 1) :
          (handle_move(c, column) /\ games' # games) =>
              LET game_id == FindGame(games, c)
                  before == games[game_id].board
                  after == games'[game_id].board
                  seat == PlayerNumber(games[game_id], c)
              IN  /\ ~ColumnFull(before, column)
                  /\ \A row \in 0..(ROWS - 1), col \in 0..(COLS - 1) :
                         after[row][col] =
                             IF col = column
                                /\ row = LowestEmpty(before, column)
                             THEN seat
                             ELSE before[row][col]]_vars

\* a move has just been applied: its game_update is on its way to seat 1
C13_Witness ==
    \E c \in Players :
        /\ pc[c] = "update_1"
        /\ sent.msg = UpdateMsg(games[game[c]])
        /\ \E row \in 0..(ROWS - 1), col \in 0..(COLS - 1) :
               games[game[c]].board[row][col] # 0

\* C14: a cell of a board changes only from empty to the marker of a seat:
\* a non-empty cell keeps its value for ever, so no cell changes twice.
C14_CellChangesOnce ==
    [][\A game_id \in GameIds :
          \A row \in 0..(ROWS - 1), col \in 0..(COLS - 1) :
              LET before == games[game_id].board[row][col]
                  after == games'[game_id].board[row][col]
              IN  after # before => before = 0 /\ after \in {1, 2}]_vars

\* the moves of this run went into a board that already held pieces
C14_Witness ==
    /\ moves_made = MaxMoves
    /\ \E game_id \in GameIds :
           Cardinality({rc \in (0..(ROWS - 1)) \X (0..(COLS - 1)) :
                           games[game_id].board[rc[1]][rc[2]] # 0})
               > MaxMoves

\* both seats of the game are filled and both participants have disconnected
BothDisconnected(game_id) ==
    /\ game_id \in GameIds
    /\ Len(games[game_id].players) = 2
    /\ \A n \in 1..2 : Disconnected(games[game_id].players[n])

\* C15: a game whose two participants have both disconnected is eventually
\* removed from the table of games.
C15_SessionRemoved ==
    \A game_id \in Players :
        BothDisconnected(game_id) ~> (game_id \notin GameIds)

\* number of cells of the board that hold the marker of the seat
PieceCount(board, player) ==
    Cardinality({rc \in (0..(ROWS - 1)) \X (0..(COLS - 1)) :
                    board[rc[1]][rc[2]] = player})

\* another participant's move in the game of c is still being broadcast
MoveInFlight(c) ==
    \E d \in Players \ {c} :
        pc[d] \in {"update_1", "update_2"} /\ game[d] = FindGame(games, c)

\* C16: moves are applied one at a time.  A step that changes a board is
\* the handling of one request of the seat on turn in the state before it,
\* and adds one piece of that seat, no other; a request that arrives
\* while the other seat's move is still being broadcast is judged on the
\* state that move left: it is answered 'Not your turn' and changes nothing,
\* or it is applied as the next move.
C16_MovesOneAtATime ==
    [][/\ \A game_id \in GameIds :
             LET g == games[game_id]
                 h == games'[game_id]
                 seat == g.current_player
             IN  h.board # g.board =>
                    /\ \E c \in Players :
                           /\ MoveApplied(c)
                           /\ FindGame(games, c) = game_id
                           /\ PlayerNumber(g, c) = seat
                    /\ PieceCount(h.board, seat)
                           = PieceCount(g.board, seat) + 1
                    /\ PieceCount(h.board, 3 - seat)
                           = PieceCount(g.board, 3 - seat)
       /\ \A c \in Players, column \in 0..(COLS - 1) :
             ( /\ handle_move(c, column)
               /\ FindGame(games, c) # None
               /\ MoveInFlight(c)
               /\ ~ColumnFull(games[FindGame(games, c)].board, column) )
             => IF OnTurn(c)
                THEN games'[FindGame(games, c)].board
                         # games[FindGame(games, c)].board
                ELSE /\ games' = games
                     /\ sent' = Send(c, ErrorResponse("Not your turn"))]_vars

\* the two seats of one game both have a move being broadcast
C16_Witness ==
    \E c \in Players, d \in Players :
        /\ c # d
        /\ pc[c] \in {"update_1", "update_2"}
        /\ pc[d] \in {"update_1", "update_2"}
        /\ game[c] = game[d]

\* C17: a successful move that completes four in a row for the mover leaves
\* the turn on the seat that just moved; any other successful move passes
\* the turn to the other seat.
C17_WinKeepsTurn ==
    [][\A c \in Players :
          MoveApplied(c) =>
              LET game_id == FindGame(games, c)
                  seat == PlayerNumber(games[game_id], c)
                  h == games'[game_id]
              IN  h.current_player =
                      IF check_winner(h.board, seat) THEN seat
                      ELSE 3 - seat]_vars

InBoard(row, col) == row \in 0..(ROWS - 1) /\ col \in 0..(COLS - 1)

\* four consecutive cells of the seat, starting anywhere on the board and
\* running along a row, a column or either diagonal
HasFour(board, player) ==
    \E row \in 0..(ROWS - 1), col \in 0..(COLS - 1), dir \in Directions :
        \A i \in 0..3 :
            /\ InBoard(row + i * dir[1], col + i * dir[2])
            /\ board[row + i * dir[1]][col + i * dir[2]] = player

\* C18: for every board and each seat, check_winner reports a win exactly
\* when the board holds four consecutive cells of that seat in a row, a
\* column or along either diagonal; a recorded winner has such a line.
C18_WinDetection ==
    \A game_id \in GameIds, player \in {1, 2} :
        /\ check_winner(games[game_id].board, player)
               <=> HasFour(games[game_id].board, player)
        /\ games[game_id].winner = player
               => HasFour(games[game_id].board, player)

\* the check has recorded a winner whose only lines of four are diagonal,
\* on a board where the other seat has no line
C18_Witness ==
    \E player \in {1, 2} :
        /\ moves_made = 1
        /\ games[1].winner = player
        /\ ~HasFour(games[1].board, 3 - player)
        /\ \A row \in 0..(ROWS - 1), col \in 0..(COLS - 1),
              dir \in {<<0, 1>>, <<1, 0>>} :
               ~\A i \in 0..3 :
                    /\ InBoard(row + i * dir[1], col + i * dir[2])
                    /\ games[1].board[row + i * dir[1]][col + i * dir[2]]
                           = player

\* C19: in every game, seat 1 has as many pieces on the board as seat 2 or
\* one more, and the turn is seat 1's exactly when the counts are equal.
C19_PieceCounts ==
    \A game_id \in GameIds :
        LET g == games[game_id]
            ahead == PieceCount(g.board, 1) - PieceCount(g.board, 2)
        IN  /\ ahead \in {0, 1}
            /\ g.current_player = 1 <=> ahead = 0

\* the moves of this run were applied and seat 1 is one piece ahead in a game
C19_Witness ==
    /\ moves_made = MaxMoves
    /\ \E game_id \in GameIds :
           /\ PieceCount(games[game_id].board, 1)
                  = PieceCount(games[game_id].board, 2) + 1
           /\ games[game_id].current_player = 2

\* C20: in every game, game_over is true exactly when winner is set, the
\* seat named by winner has four in a row on the board, and while game_over
\* is false neither seat has four in a row.
C20_OutcomeMatchesBoard ==
    \A game_id \in GameIds :
        LET g == games[game_id]
        IN  /\ g.game_over <=> g.winner # None
            /\ g.winner # None => HasFour(g.board, g.winner)
            /\ ~g.game_over => ~HasFour(g.board, 1) /\ ~HasFour(g.board, 2)

\* a move of this run has won a game
C20_Witness ==
    /\ moves_made > 0
    /\ \E game_id \in GameIds :
           /\ games[game_id].game_over
           /\ games[game_id].winner \in {1, 2}
           /\ HasFour(games[game_id].board, games[game_id].winner)

====
